---- MODULE Spec2Model ----
(***************************************************************************)
(* Model of the Gymmando workout backend: the record-store facades         *)
(* (WorkoutCRUD, WorkoutDatabase, BaseCRUD) over the external "workouts"   *)
(* table, the completeness validator, and the workout graph run that a     *)
(* voice turn starts.                                                      *)
(*                                                                         *)
(* Encoding of Python values.  A str-typed slot holds a TLA+ string and    *)
(* Python None is NoneS; an int-typed slot holds an integer and Python     *)
(* None is NoneI.  Neither sentinel occurs as a real value in the bounded  *)
(* input sets below.                                                       *)
(***************************************************************************)
EXTENDS Integers, Sequences, FiniteSets, TLC

VARIABLES
    store,    \* the rows of the external "workouts" table
    nextId,   \* the next fresh primary key the table hands out
    clock,    \* the table's server time, used for created_at defaults
    call,     \* the last facade call: its arguments and what it returned
    pc,       \* position of the current voice turn / graph run
    st,       \* the WorkoutState of the current run
    visited,  \* the graph nodes the current run has entered, in order
    ends,     \* how many times the current run has reached END
    issued,   \* the store operations the current run has issued: <<[op, id], ...>>
    escaped,  \* the exception that left WorkoutGraph.run, or "none"
    extractor,\* the Field Extractor call of the current run: pending / returned / raised
    reply,    \* what Gymmando.workout returned for the last turn
    vin,      \* the dict handed to WorkoutValidator.validate
    vout,     \* the dict WorkoutValidator.validate returned
    rt,       \* the last WorkoutRetriever.retrieve call: arguments, tool use, result
    sess,     \* the voice session: entrypoint's position, the room, the owner ids
    conc      \* update turns of separate sessions running against one table

vars == <<store, nextId, clock, call, pc, st, visited, ends, issued,
          escaped, extractor, reply, vin, vout, rt, sess, conc>>

storeVars == <<store, nextId, clock, call>>
runVars == <<pc, st, visited, ends, issued, escaped, extractor, reply>>
valVars == <<vin, vout>>
agentVars == <<rt>>
sessVars == <<sess>>
concVars == <<conc>>

----------------------------------------------------------------------------
(* Bounds and value domains *)

\* how many rows the table ever receives (primary keys 1..MaxRecords)
MaxRecords == 2

NoneS == "<None>"
NoneI == -1

Owners == {"alice", "bob"}
IdSpace == 1..MaxRecords

IntFields == {"sets", "reps", "rest_time"}
StrFields == {"exercise", "weight", "comments"}
WorkoutFields == {"exercise", "sets", "reps", "weight", "rest_time", "comments"}
Columns == WorkoutFields \cup {"id", "user_id", "created_at"}

None(k) == IF k \in IntFields THEN NoneI ELSE NoneS

Range(q) == {q[i] : i \in 1..Len(q)}

----------------------------------------------------------------------------
(* The external table: PostgREST select / insert / update / delete *)

\* a faulty variant: the owner filter is dropped
EqIdUser_NoOwnerFilter(rows, id, user_id) ==
    {r \in rows : r.id = id}

\* rows selected by .eq("id", id).eq("user_id", user_id)
EqIdUser(rows, id, user_id) ==
    {r \in rows : r.id = id /\ r.user_id = user_id}

\* rows selected by .eq("id", id) alone
EqId(rows, id) == {r \in rows : r.id = id}

\* rows selected by .eq("user_id", user_id)
EqUser(rows, user_id) == {r \in rows : r.user_id = user_id}

\* a faulty variant: a full overwrite, workout columns left out become NULL
Patched_NullsOmitted(r, data) ==
    [k \in DOMAIN r |->
        IF k \in DOMAIN data THEN data[k]
        ELSE IF k \in WorkoutFields THEN None(k) ELSE r[k]]

\* .update(data) on one row: the columns named in data take data's values
Patched(r, data) ==
    [k \in DOMAIN r |-> IF k \in DOMAIN data THEN data[k] ELSE r[k]]

\* .insert(d): the table fills id and created_at, absent columns are NULL
Inserted(d, id, now) ==
    [k \in Columns |->
        IF k = "id" THEN id
        ELSE IF k = "created_at" THEN now
        ELSE IF k \in DOMAIN d THEN d[k]
        ELSE None(k)]

----------------------------------------------------------------------------
(* Input sets *)

ExerciseVals == {NoneS, "", "squats"}
SetsVals == {NoneI, 0, 3}
RepsVals == {NoneI, 10}
WeightVals == {NoneS, "135 lbs"}
RestVals == {NoneI, 60}
CommentVals == {NoneS}

\* the workout fields a WorkoutState / parser response can carry
FieldSets ==
    [exercise : ExerciseVals, sets : SetsVals, reps : RepsVals,
     weight : WeightVals, rest_time : RestVals, comments : CommentVals]

\* the update dicts callers pass to the facades
Patches ==
    { ("sets" :> 5),
      ("exercise" :> "Back Squats") @@ ("weight" :> "225 lbs") }

\* was the store reachable (client construction and execute() succeed)
Up == BOOLEAN

NoCall ==
    [api |-> "", op |-> "", caller |-> "", id |-> 0, data |-> <<>>,
     up |-> TRUE, ret |-> "", rows |-> <<>>]

\* what a facade call was given (api, op, caller, id, data), whether the
\* store was reachable, what it returned (ret) and its response.data (rows)
Call(api, op, caller, id, data, up, ret, rows) ==
    [api |-> api, op |-> op, caller |-> caller, id |-> id, data |-> data,
     up |-> up, ret |-> ret, rows |-> rows]

\* response.data of a statement that matched the rows S (at most one row)
AsData(S) == IF S = {} THEN <<>> ELSE <<CHOOSE r \in S : TRUE>>

----------------------------------------------------------------------------
(* WorkoutCRUD: src/gymmando_graph/modules/workout/crud.py *)

\* Python truthiness of a str-typed / int-typed optional value
TruthyS(v) == v # NoneS /\ v # ""
TruthyI(v) == v # NoneI /\ v # 0

\* a faulty variant: the check looks at exercise, sets and reps only
CreateRejects_WeightOptional(s) ==
    ~TruthyS(s.exercise) \/ ~TruthyI(s.sets) \/ ~TruthyI(s.reps)

\* crud.py:39, the required-field check of create
CreateRejects(s) ==
    ~TruthyS(s.exercise) \/ ~TruthyI(s.sets) \/ ~TruthyI(s.reps)
        \/ ~TruthyS(s.weight)

\* a faulty variant: only the required columns are dumped
ToDbDict_RequiredOnly(user_id, s) ==
    LET full == [k \in Range(<<"exercise", "sets", "reps", "weight">>)
                        \cup {"user_id"} |->
                    IF k = "user_id" THEN user_id ELSE s[k]]
    IN  [k \in {x \in DOMAIN full : full[x] # None(x)} |-> full[k]]

\* WorkoutCreateModel.to_db_dict: model_dump(exclude_none=True)
ToDbDict(user_id, s) ==
    LET full == [k \in WorkoutFields \cup {"user_id"} |->
                    IF k = "user_id" THEN user_id ELSE s[k]]
    IN  [k \in {x \in DOMAIN full : full[x] # None(x)} |-> full[k]]

\* WorkoutCRUD.create(state)
CrudCreate(user_id, s, up) ==
    IF CreateRejects(s)
    THEN /\ call' = Call("WorkoutCRUD", "create", user_id, 0, s, up, "ValueError", <<>>)
         /\ UNCHANGED <<store, nextId, clock>>
    ELSE IF ~up
    THEN /\ call' = Call("WorkoutCRUD", "create", user_id, 0, s, up, "raise", <<>>)
         /\ UNCHANGED <<store, nextId, clock>>
    ELSE /\ nextId <= MaxRecords
         /\ LET row == Inserted(ToDbDict(user_id, s), nextId, clock)
            IN  /\ store' = store \cup {row}
                /\ call' = Call("WorkoutCRUD", "create", user_id, 0, s, up,
                                "record", <<row>>)
         /\ nextId' = nextId + 1
         /\ clock' \in {clock, clock + 1}

\* a faulty variant: when no row has the id, the owner's most recent row is
\* patched instead
UpdateData_FallsThrough(rows, workout_id, user_id, data, up) ==
    LET own == IF up THEN EqUser(rows, user_id) ELSE {}
        hit == {r \in own : r.id = workout_id}
        recent == {r \in own : \A o \in own : o.created_at <= r.created_at}
    IN  {Patched(r, data) : r \in IF hit # {} THEN hit ELSE recent}

\* response.data of WorkoutCRUD.update's statement (crud.py:174-180)
UpdateData(rows, workout_id, user_id, data, up) ==
    {Patched(r, data) :
        r \in IF up THEN EqIdUser(rows, workout_id, user_id) ELSE {}}

\* what WorkoutCRUD.update returns: the updated model, or None
UpdateReturn(rows, workout_id, user_id, data, up) ==
    IF UpdateData(rows, workout_id, user_id, data, up) # {}
    THEN "record" ELSE "none"

\* a faulty variant: a read-modify-write, the patch is laid over the row as
\* it was when the turns began and the whole row is written back
CrudUpdate_FromSnapshot(workout_id, user_id, data, up) ==
    LET hit == IF up THEN EqIdUser(store, workout_id, user_id) ELSE {}
        new == {Patched(r, data) :
                   r \in IF hit = {} THEN {}
                         ELSE EqIdUser(conc.orig, workout_id, user_id)}
    IN  /\ store' = (store \ hit) \cup new
        /\ call' = Call("WorkoutCRUD", "update", user_id, workout_id, data, up,
                        UpdateReturn(store, workout_id, user_id, data, up),
                        AsData(new))
        /\ UNCHANGED <<nextId, clock>>

\* WorkoutCRUD.update(workout_id, user_id, data)
CrudUpdate(workout_id, user_id, data, up) ==
    LET hit == IF up THEN EqIdUser(store, workout_id, user_id) ELSE {}
        new == UpdateData(store, workout_id, user_id, data, up)
    IN  /\ store' = (store \ hit) \cup new
        /\ call' = Call("WorkoutCRUD", "update", user_id, workout_id, data, up,
                        UpdateReturn(store, workout_id, user_id, data, up),
                        AsData(new))
        /\ UNCHANGED <<nextId, clock>>

\* response.data of WorkoutCRUD.delete's statement (crud.py:211-217)
DeleteData(rows, workout_id, user_id, up) ==
    IF up THEN EqIdUser(rows, workout_id, user_id) ELSE {}

\* a faulty variant: a row of another owner is reported as forbidden
DeleteReturn_ReportsForeign(rows, workout_id, user_id, up) ==
    IF DeleteData(rows, workout_id, user_id, up) # {} THEN "true"
    ELSE IF up /\ EqId(rows, workout_id) # {} THEN "forbidden" ELSE "false"

\* what WorkoutCRUD.delete returns: bool(response.data)
DeleteReturn(rows, workout_id, user_id, up) ==
    IF DeleteData(rows, workout_id, user_id, up) # {} THEN "true" ELSE "false"

\* a faulty variant: a soft delete, the row is reported deleted and kept
CrudDelete_KeepsRow(workout_id, user_id, up) ==
    LET hit == DeleteData(store, workout_id, user_id, up)
    IN  /\ store' = store
        /\ call' = Call("WorkoutCRUD", "delete", user_id, workout_id, <<>>, up,
                        DeleteReturn(store, workout_id, user_id, up),
                        AsData(hit))
        /\ UNCHANGED <<nextId, clock>>

\* WorkoutCRUD.delete(workout_id, user_id)
CrudDelete(workout_id, user_id, up) ==
    LET hit == DeleteData(store, workout_id, user_id, up)
    IN  /\ store' = store \ hit
        /\ call' = Call("WorkoutCRUD", "delete", user_id, workout_id, <<>>, up,
                        DeleteReturn(store, workout_id, user_id, up),
                        AsData(hit))
        /\ UNCHANGED <<nextId, clock>>

\* the default of WorkoutCRUD.read's limit parameter
DefaultLimit == 10

\* the filter arguments callers pass to WorkoutCRUD.read
ReadArgs ==
    { [exercise |-> NoneS, start_date |-> NoneI, end_date |-> NoneI,
       limit |-> DefaultLimit, order_direction |-> "desc"],
      [exercise |-> NoneS, start_date |-> NoneI, end_date |-> NoneI,
       limit |-> 1, order_direction |-> "desc"],
      [exercise |-> "squat", start_date |-> NoneI, end_date |-> NoneI,
       limit |-> NoneI, order_direction |-> "asc"],
      [exercise |-> "lunge", start_date |-> 1, end_date |-> NoneI,
       limit |-> 0, order_direction |-> NoneS],
      [exercise |-> "", start_date |-> NoneI, end_date |-> 0,
       limit |-> 1, order_direction |-> "ASC"],
      [exercise |-> NoneS, start_date |-> NoneI, end_date |-> NoneI,
       limit |-> 0, order_direction |-> "desc"] }

\* .ilike("exercise", "%pat%") on the exercise names the model stores
ILike(v, pat) ==
    <<v, pat>> \in {<<"squats", "squat">>, <<"Back Squats", "squat">>}

\* (order_direction or "desc").lower() == "desc"
DescOrder(order_direction) ==
    IF order_direction = NoneS \/ order_direction = ""
    THEN TRUE
    ELSE order_direction \in {"desc", "DESC"}

\* .order("created_at", desc=...): every order the table may return S in
Ordered(S, desc) ==
    {q \in [1..Cardinality(S) -> S] :
        /\ \A i, j \in 1..Cardinality(S) : i # j => q[i] # q[j]
        /\ \A i, j \in 1..Cardinality(S) :
            i < j => IF desc THEN q[i].created_at >= q[j].created_at
                     ELSE q[i].created_at <= q[j].created_at}

\* .limit(n)
Limit(q, n) == SubSeq(q, 1, IF n < Len(q) THEN n ELSE Len(q))

\* the rows WorkoutCRUD.read's filters keep (crud.py:115-128)
ReadFilter(rows, user_id, a) ==
    {r \in EqUser(rows, user_id) :
        /\ TruthyS(a.exercise) => ILike(r.exercise, a.exercise)
        /\ a.start_date # NoneI => r.created_at >= a.start_date
        /\ a.end_date # NoneI => r.created_at <= a.end_date}

\* WorkoutCRUD.read(user_id, exercise, ..., limit, order_by, order_direction)
CrudRead(user_id, a, up) ==
    /\ \E q \in Ordered(ReadFilter(store, user_id, a), DescOrder(a.order_direction)) :
        LET data == IF TruthyI(a.limit) THEN Limit(q, a.limit) ELSE q
        IN  call' = Call("WorkoutCRUD", "read", user_id, 0, a, up, "list",
                         IF up THEN data ELSE <<>>)
    /\ UNCHANGED <<store, nextId, clock>>

----------------------------------------------------------------------------
(* WorkoutDatabase: src/gymmando_graph/modules/workout/nodes/workout_database.py *)

\* WorkoutDatabase.save_workout(state)
DbSaveWorkout(user_id, s, up) ==
    IF CreateRejects(s)
    THEN /\ call' = Call("WorkoutDatabase", "create", user_id, 0, s, up, "ValueError", <<>>)
         /\ UNCHANGED <<store, nextId, clock>>
    ELSE IF ~up
    THEN /\ call' = Call("WorkoutDatabase", "create", user_id, 0, s, up, "raise", <<>>)
         /\ UNCHANGED <<store, nextId, clock>>
    ELSE /\ nextId <= MaxRecords
         /\ LET row == Inserted(ToDbDict(user_id, s), nextId, clock)
            IN  /\ store' = store \cup {row}
                /\ call' = Call("WorkoutDatabase", "create", user_id, 0, s, up,
                                "record", <<row>>)
         /\ nextId' = nextId + 1
         /\ clock' \in {clock, clock + 1}

\* WorkoutDatabase.get_workout_by_id(workout_id, user_id)
DbGetWorkoutById(workout_id, user_id, up) ==
    LET hit == IF up THEN EqIdUser(store, workout_id, user_id) ELSE {}
    IN  /\ call' = Call("WorkoutDatabase", "read_one", user_id, workout_id, <<>>, up,
                        IF hit # {} THEN "record" ELSE "none", AsData(hit))
        /\ UNCHANGED <<store, nextId, clock>>

\* WorkoutDatabase.get_user_workouts(user_id, limit, offset)
DbGetUserWorkouts(user_id, limit, offset, up) ==
    /\ \E q \in Ordered(EqUser(store, user_id), TRUE) :
        LET data == Limit(SubSeq(q, offset + 1, Len(q)), limit)
        IN  call' = Call("WorkoutDatabase", "read", user_id, 0,
                         [limit |-> limit, offset |-> offset], up, "list",
                         IF up THEN data ELSE <<>>)
    /\ UNCHANGED <<store, nextId, clock>>

----------------------------------------------------------------------------
(* BaseCRUD: src/gymmando_graph/database/crud.py.  Its methods take no     *)
(* owner id; caller is the owner on whose behalf the call is made.         *)

\* BaseCRUD.create(data)
BaseCreate(caller, data, up) ==
    IF ~up
    THEN /\ call' = Call("BaseCRUD", "create", caller, 0, data, up, "raise", <<>>)
         /\ UNCHANGED <<store, nextId, clock>>
    ELSE /\ nextId <= MaxRecords
         /\ LET row == Inserted(data, nextId, clock)
            IN  /\ store' = store \cup {row}
                /\ call' = Call("BaseCRUD", "create", caller, 0, data, up,
                                "record", <<row>>)
         /\ nextId' = nextId + 1
         /\ clock' \in {clock, clock + 1}

\* BaseCRUD.read(id)
BaseRead(caller, id, up) ==
    LET hit == EqId(store, id)
    IN  /\ call' = Call("BaseCRUD", "read_one", caller, id, <<>>, up,
                        IF ~up THEN "raise"
                        ELSE IF hit # {} THEN "record" ELSE "none",
                        IF up THEN AsData(hit) ELSE <<>>)
        /\ UNCHANGED <<store, nextId, clock>>

\* BaseCRUD.update(id, data)
BaseUpdate(caller, id, data, up) ==
    LET hit == IF up THEN EqId(store, id) ELSE {}
        new == {Patched(r, data) : r \in hit}
    IN  /\ store' = (store \ hit) \cup new
        /\ call' = Call("BaseCRUD", "update", caller, id, data, up,
                        IF ~up THEN "raise"
                        ELSE IF new # {} THEN "record" ELSE "none",
                        AsData(new))
        /\ UNCHANGED <<nextId, clock>>

\* BaseCRUD.delete(id)
BaseDelete(caller, id, up) ==
    LET hit == IF up THEN EqId(store, id) ELSE {}
    IN  /\ store' = store \ hit
        /\ call' = Call("BaseCRUD", "delete", caller, id, <<>>, up,
                        IF ~up THEN "raise"
                        ELSE IF hit # {} THEN "true" ELSE "false",
                        AsData(hit))
        /\ UNCHANGED <<nextId, clock>>

----------------------------------------------------------------------------
(* WorkoutValidator: src/gymmando_graph/modules/workout/nodes/workout_validator.py *)

REQUIRED_FIELDS == <<"exercise", "sets", "reps", "weight">>

\* state.get(field): the value under the key, None when the key is absent
Get(d, k) == IF k \in DOMAIN d THEN d[k] ELSE None(k)

\* a faulty variant: "not value", so that 0 counts as missing
IsMissing_Falsy(d, k) ==
    Get(d, k) = None(k) \/ (k \in StrFields /\ Get(d, k) = "")
        \/ (k \in IntFields /\ Get(d, k) = 0)

\* value is None or value == ""
IsMissing(d, k) ==
    Get(d, k) = None(k) \/ (k \in StrFields /\ Get(d, k) = "")

\* WorkoutValidator.validate(state): the two keys it writes
Validate(d) ==
    LET Miss(k) == IsMissing(d, k)
        missing_fields == SelectSeq(REQUIRED_FIELDS, Miss)
    IN  [done |-> TRUE,
         validation_status |->
             IF missing_fields = <<>> THEN "complete" ELSE "incomplete",
         missing_fields |-> missing_fields]

\* WorkoutValidator.is_complete(state): all(state.get(field) for field in ...)
IsComplete(d) ==
    \A k \in Range(REQUIRED_FIELDS) :
        IF k \in IntFields THEN TruthyI(Get(d, k)) ELSE TruthyS(Get(d, k))

\* nothing asked of the validator yet; is_complete holds what is_complete
\* returned ("" before the call)
NotValidated ==
    [done |-> FALSE, validation_status |-> "", missing_fields |-> <<>>,
     is_complete |-> ""]

\* the dicts handed to validate: every required key absent, None, empty or set
ValidatorValues ==
    [exercise : ExerciseVals, sets : SetsVals, reps : RepsVals,
     weight : {NoneS, "", "135 lbs"}]

ValidatorCall ==
    /\ ~vout.done
    /\ vout' = Validate(vin) @@ ("is_complete" :> vout.is_complete)
    /\ UNCHANGED <<vin, storeVars, runVars, agentVars, sessVars, concVars>>

\* a call of is_complete on the same dict
IsCompleteCall ==
    /\ vout.is_complete = ""
    /\ vout' = [vout EXCEPT !.is_complete =
                    IF IsComplete(vin) THEN "True" ELSE "False"]
    /\ UNCHANGED <<vin, storeVars, runVars, agentVars, sessVars, concVars>>

----------------------------------------------------------------------------
(* The voice turn and the graph run:                                       *)
(* src/gymmando_graph/livekit_agent.py, modules/workout/workout_graph.py   *)

\* the fields WorkoutState declares (schemas/workout_graph_schemas.py)
StateFields ==
    {"user_input", "user_id", "intent", "exercise", "sets", "reps", "weight",
     "rest_time", "comments", "validation_status", "missing_fields", "response"}

\* the fields WorkoutParserResponse declares (schemas/workout_parser_schemas.py)
ParserResponseFields ==
    {"exercise", "sets", "reps", "weight", "rest_time", "comments"}

\* WorkoutState(user_input=..., user_id=..., intent=...)
FreshState(user_input, user_id, intent) ==
    [user_input |-> user_input, user_id |-> user_id, intent |-> intent,
     exercise |-> NoneS, sets |-> NoneI, reps |-> NoneI, weight |-> NoneS,
     rest_time |-> NoneI, comments |-> NoneS,
     validation_status |-> NoneS, missing_fields |-> <<>>, response |-> ""]

NoState == FreshState("", "", NoneS)

LogUtterance == "3 sets of squats at 135 lbs, 10 reps"
UpdateUtterance == "change my last set to 5 reps"
DeleteUtterance == "delete my last workout"
ReadUtterance == "what did I do last week"
Utterances == {LogUtterance, UpdateUtterance, DeleteUtterance, ReadUtterance}

\* the intent tags the voice agent passes to the workout tool
Intents == {"get", "put", "delete"}

ErrorReply == "Error processing workout data."

\* a faulty variant: the state object of the previous turn is used again,
\* with the new inputs written over it
WorkoutTool_ReusesState(user_id, transcript, intent) ==
    /\ pc \in {"idle", "replied"}
    /\ st' = [st EXCEPT !.user_input = transcript, !.user_id = user_id,
                        !.intent = intent]
    /\ pc' = "workout_parser"
    /\ visited' = <<>>
    /\ ends' = 0
    /\ issued' = <<>>
    /\ escaped' = "none"
    /\ extractor' = "pending"
    /\ UNCHANGED <<reply, storeVars, valVars, agentVars, sessVars, concVars>>

\* Gymmando.workout(transcript, intent) up to WorkoutGraph.run entering the
\* compiled graph: a fresh WorkoutState, then the START -> workout_parser edge
WorkoutTool(user_id, transcript, intent) ==
    /\ pc \in {"idle", "replied"}
    /\ st' = FreshState(transcript, user_id, intent)
    /\ pc' = "workout_parser"
    /\ visited' = <<>>
    /\ ends' = 0
    /\ issued' = <<>>
    /\ escaped' = "none"
    /\ extractor' = "pending"
    /\ UNCHANGED <<reply, storeVars, valVars, agentVars, sessVars, concVars>>

\* _workout_parser_node when self.workout_parser.process raises (line 109):
\* the node has no handler, so the exception leaves graph.invoke and run
ParserNodeExtractorRaises ==
    /\ pc = "workout_parser"
    /\ visited' = Append(visited, "workout_parser")
    /\ extractor' = "raised"
    /\ escaped' = "ExtractorError"
    /\ pc' = "raised"
    /\ UNCHANGED <<st, ends, issued, reply, storeVars, valVars, agentVars, sessVars, concVars>>

\* _workout_parser_node when process returns parsed (lines 109-118).
\* Lines 112-117 copy the six workout fields.  Line 118 reads
\* parsed_result.workout_id and assigns state.workout_id: neither
\* WorkoutParserResponse nor WorkoutState declares workout_id, so the read
\* raises AttributeError (the assignment would raise ValueError), outside any
\* try block, and the exception leaves graph.invoke and run.
ParserNode(parsed) ==
    /\ pc = "workout_parser"
    /\ visited' = Append(visited, "workout_parser")
    /\ extractor' = "returned"
    /\ st' = [st EXCEPT !.exercise = parsed.exercise, !.sets = parsed.sets,
                        !.reps = parsed.reps, !.weight = parsed.weight,
                        !.rest_time = parsed.rest_time,
                        !.comments = parsed.comments]
    /\ IF "workout_id" \notin ParserResponseFields
       THEN escaped' = "AttributeError" /\ pc' = "raised"
       ELSE IF "workout_id" \notin StateFields
       THEN escaped' = "ValueError" /\ pc' = "raised"
       ELSE escaped' = "none" /\ pc' = "parsed"
    /\ UNCHANGED <<ends, issued, reply, storeVars, valVars, agentVars, sessVars, concVars>>

\* Gymmando.workout after run (livekit_agent.py:47-62)
ToolReturn ==
    /\ pc \in {"raised", "END"}
    /\ reply' =
        IF escaped # "none" THEN ErrorReply
        ELSE IF st.intent = "get"
        THEN (IF st.response # "" THEN st.response ELSE "No workout data found.")
        ELSE IF st.validation_status = "complete"
        THEN "Logged: {exercise}, {sets}x{reps}. Want to save it?"
        ELSE "Missing info: {missing_fields}."
    /\ pc' = "replied"
    /\ UNCHANGED <<st, visited, ends, issued, escaped, extractor, storeVars, valVars, agentVars, sessVars, concVars>>

----------------------------------------------------------------------------
(* The voice session: entrypoint and Gymmando in                           *)
(* src/gymmando_graph/livekit_agent.py                                     *)

DefaultUser == "default_user"
AgentIdentity == "agent"

\* the identities of the participants that may join the room
Identities == Owners \cup {AgentIdentity}

\* ctx.room.metadata: nothing, or a raw string naming the user
Metadata == {"", "bob"}

\* how many workout turns a session is followed for
MaxTurns == 2

\* the participants of the room whose identity names a user
Humans(participants) ==
    SelectSeq(participants, LAMBDA p : p # "" /\ p # AgentIdentity)

\* extract_user_id_from_participants: user_id after the call
ExtractUserId(participants, user_id) ==
    IF Len(Humans(participants)) > 0 THEN Humans(participants)[1] ELSE user_id

\* the metadata fallback (lines 108-122)
MetadataUserId(m) == IF m = "" THEN DefaultUser ELSE m

\* no job assigned
NoSession ==
    [pc |-> "idle", participants |-> <<>>, user_id |-> DefaultUser,
     agent |-> "", turns |-> <<>>]

SessionIdle == sess = NoSession

\* no concurrent turns: the table is used by one run at a time
NoTurns == [turns |-> <<>>, applied |-> <<>>, orig |-> {}]

ConcIdle == conc = NoTurns

\* Gymmando(user_id=user_id) is constructed and session.start is awaited
Constructed(user_id) ==
    sess' = [sess EXCEPT !.user_id = user_id, !.agent = user_id,
                         !.pc = "starting"]

\* a participant joins the room
ParticipantJoins ==
    /\ sess.pc # "idle"
    /\ \E p \in Identities :
        /\ p \notin Range(sess.participants)
        /\ sess' = [sess EXCEPT !.participants = Append(@, p)]
    /\ UNCHANGED <<storeVars, runVars, valVars, agentVars, concVars>>

\* entrypoint up to its first await after connect: ctx.connect() and the
\* first look at the participants; a failing connect leaves default_user
EntryConnect ==
    /\ sess.pc = "assigned"
    /\ \E ok \in BOOLEAN :
        LET found == ExtractUserId(sess.participants, sess.user_id)
        IN  IF ~ok THEN Constructed(sess.user_id)
            ELSE IF found # DefaultUser THEN Constructed(found)
            ELSE sess' = [sess EXCEPT !.pc = "sleep1"]
    /\ UNCHANGED <<storeVars, runVars, valVars, agentVars, concVars>>

\* after asyncio.sleep(1): the second look, then the metadata fallback
EntryAfterWait ==
    /\ sess.pc = "sleep1"
    /\ LET found == ExtractUserId(sess.participants, sess.user_id)
       IN  IF found # DefaultUser THEN Constructed(found)
           ELSE \E m \in Metadata : Constructed(MetadataUserId(m))
    /\ UNCHANGED <<storeVars, runVars, valVars, agentVars, concVars>>

\* session.start returns: the agent now takes tool calls
SessionStarts ==
    /\ sess.pc = "starting"
    /\ sess' = [sess EXCEPT !.pc = "sleep2"]
    /\ UNCHANGED <<storeVars, runVars, valVars, agentVars, concVars>>

\* after asyncio.sleep(0.5): the third look, and gymmando.user_id is
\* replaced when an identity is known by now (lines 166-171)
EntryAfterStart ==
    /\ sess.pc = "sleep2"
    /\ LET found == ExtractUserId(sess.participants, sess.user_id)
       IN  sess' = [sess EXCEPT !.user_id = found,
                        !.agent = IF found # DefaultUser THEN found ELSE @,
                        !.pc = "running"]
    /\ UNCHANGED <<storeVars, runVars, valVars, agentVars, concVars>>

\* Gymmando.workout is called for a user in the room: the turn's
\* WorkoutState takes user_id = self.user_id (line 44)
SessionTurn ==
    /\ sess.pc \in {"sleep2", "running"}
    /\ Len(Humans(sess.participants)) > 0
    /\ Len(sess.turns) < MaxTurns
    /\ sess' = [sess EXCEPT !.turns = Append(@, sess.agent)]
    /\ UNCHANGED <<storeVars, runVars, valVars, agentVars, concVars>>

----------------------------------------------------------------------------
(* WorkoutRetriever and its query_workouts tool:                           *)
(* src/gymmando_graph/modules/workout/agents/workout_retriever.py          *)

\* the methods WorkoutCRUD defines (modules/workout/crud.py)
WorkoutCRUDMethods == {"__init__", "_get_client", "create", "read", "update", "delete"}

\* the tool names the language model may put in a tool call
ToolNames == {"query_workouts", "get_weather"}

\* the tool-call arguments the language model may propose
ProposedArgs ==
    { a \in UNION { [D -> {"alice", "bob", "squat", "asc"}] :
                        D \in SUBSET {"user_id", "exercise", "order_direction"} } :
        /\ "user_id" \in DOMAIN a => a["user_id"] \in Owners
        /\ "exercise" \in DOMAIN a => a["exercise"] = "squat"
        /\ "order_direction" \in DOMAIN a => a["order_direction"] = "asc" }

\* response.tool_calls: no call, or up to two
ToolCalls ==
    LET One == [name : ToolNames, args : ProposedArgs]
    IN  {<<>>} \cup {<<c>> : c \in One}
            \cup {<<c, d>> : c \in [name : {"get_weather"}, args : ProposedArgs],
                             d \in [name : {"query_workouts"}, args : {<<>>}]}
            \cup {<<c, d>> : c \in [name : {"query_workouts"}, args : {<<>>}],
                             d \in [name : ToolNames,
                                    args : {("exercise" :> "squat")}]}

\* a faulty variant: the caller's id fills in only when the model gave none
ForcedArgs_KeepProposed(tool_args, user_id) ==
    IF "user_id" \in DOMAIN tool_args THEN tool_args
    ELSE ("user_id" :> user_id) @@ tool_args

\* tool_args["user_id"] = user_id (line 146)
ForcedArgs(tool_args, user_id) ==
    ("user_id" :> user_id) @@ tool_args

\* the keyword arguments _query_workouts_impl passes on to _workout_crud.query
QueryKwargs(tool_args) ==
    [k \in {"user_id", "exercise", "order_direction"} |->
        IF k \in DOMAIN tool_args THEN tool_args[k]
        ELSE IF k = "order_direction" THEN "desc" ELSE NoneS]

\* _query_workouts_impl(**tool_args): the JSON string it returns
QueryWorkoutsImpl(rows, tool_args) ==
    IF "query" \notin WorkoutCRUDMethods
    THEN "{error: 'WorkoutCRUD' object has no attribute 'query'}"
    ELSE IF EqUser(rows, tool_args["user_id"]) = {} THEN "[]"
    ELSE "[{id: ...}, ...]"

\* a faulty variant: the last query_workouts call is the one that counts
FirstQueryCall_Last(tool_calls) ==
    IF \E i \in 1..Len(tool_calls) : tool_calls[i].name = "query_workouts"
    THEN CHOOSE i \in 1..Len(tool_calls) :
            /\ tool_calls[i].name = "query_workouts"
            /\ \A j \in (i + 1)..Len(tool_calls) :
                    tool_calls[j].name # "query_workouts"
    ELSE 0

\* the index of the first query_workouts call among the tool calls, 0 if none
FirstQueryCall(tool_calls) ==
    IF \E i \in 1..Len(tool_calls) : tool_calls[i].name = "query_workouts"
    THEN CHOOSE i \in 1..Len(tool_calls) :
            /\ tool_calls[i].name = "query_workouts"
            /\ \A j \in 1..(i - 1) : tool_calls[j].name # "query_workouts"
    ELSE 0

RetrieverIdle ==
    rt = [pc |-> "idle", user_id |-> "", tool_calls |-> <<>>, forced |-> <<>>,
          invoked |-> <<>>, queries |-> <<>>, result |-> ""]

\* WorkoutRetriever.retrieve(user_query, user_id) when the language model
\* answers with tool_calls: forced are the argument dicts after line 146,
\* invoked those handed to query_workouts.invoke, queries the keyword
\* arguments of the _workout_crud.query calls
Retrieve(user_id, tool_calls) ==
    /\ rt.pc \in {"idle", "done"}
    /\ LET n == FirstQueryCall(tool_calls)
           last == IF n = 0 THEN Len(tool_calls) ELSE n
           forced == [i \in 1..last |-> ForcedArgs(tool_calls[i].args, user_id)]
       IN  rt' = [pc |-> "done", user_id |-> user_id, tool_calls |-> tool_calls,
                  forced |-> forced,
                  invoked |-> IF n = 0 THEN <<>> ELSE <<forced[n]>>,
                  queries |-> IF n = 0 THEN <<>> ELSE <<QueryKwargs(forced[n])>>,
                  result |-> IF n = 0 THEN "{response.content}"
                             ELSE QueryWorkoutsImpl(store, forced[n])]
    /\ UNCHANGED <<storeVars, runVars, valVars, sessVars, concVars>>

\* retrieve when self.llm_with_tools.invoke raises: nothing catches it
RetrieveModelRaises(user_id) ==
    /\ rt.pc \in {"idle", "done"}
    /\ rt' = [pc |-> "done", user_id |-> user_id, tool_calls |-> <<>>,
              forced |-> <<>>, invoked |-> <<>>, queries |-> <<>>,
              result |-> "raise"]
    /\ UNCHANGED <<storeVars, runVars, valVars, sessVars, concVars>>

----------------------------------------------------------------------------
(* Specifications *)

CompleteFields ==
    [exercise |-> "squats", sets |-> 3, reps |-> 10, weight |-> "135 lbs",
     rest_time |-> NoneI, comments |-> NoneS]

\* the states handed to the facades' create
CreateInputs ==
    { CompleteFields,
      [CompleteFields EXCEPT !.exercise = ""],
      [CompleteFields EXCEPT !.sets = 0],
      [CompleteFields EXCEPT !.reps = NoneI],
      [CompleteFields EXCEPT !.weight = NoneS] }

SeedRow(id, user_id) ==
    Inserted(ToDbDict(user_id, CompleteFields), id, id - 1)

\* the table contents a voice turn may start from
SeedStores ==
    { {},
      {SeedRow(1, "alice")},
      {SeedRow(1, "alice"), SeedRow(2, "bob")} }

RunIdle ==
    /\ pc = "idle"
    /\ st = NoState
    /\ visited = <<>>
    /\ ends = 0
    /\ issued = <<>>
    /\ escaped = "none"
    /\ extractor = "pending"
    /\ reply = ""

ValidatorIdle ==
    /\ vin = <<>>
    /\ vout = NotValidated

\* voice turns over a table that earlier sessions have filled
Init ==
    /\ store \in SeedStores
    /\ nextId = Cardinality(store) + 1
    /\ clock = Cardinality(store)
    /\ call = NoCall
    /\ RunIdle
    /\ ValidatorIdle
    /\ RetrieverIdle
    /\ SessionIdle
    /\ ConcIdle

Next ==
    \/ \E u \in Owners, t \in Utterances, i \in Intents : WorkoutTool(u, t, i)
    \/ ParserNodeExtractorRaises
    \/ \E parsed \in FieldSets : ParserNode(parsed)
    \/ ToolReturn

Spec == Init /\ [][Next]_vars

\* the facades called directly on an initially empty table
InitGateway ==
    /\ store = {}
    /\ nextId = 1
    /\ clock = 0
    /\ call = NoCall
    /\ RunIdle
    /\ ValidatorIdle
    /\ RetrieverIdle
    /\ SessionIdle
    /\ ConcIdle

DoCrudCreate ==
    /\ call = NoCall
    /\ \E u \in Owners, s \in CreateInputs, up \in Up : CrudCreate(u, s, up)
    /\ UNCHANGED <<runVars, valVars, agentVars, sessVars, concVars>>

DoCrudRead ==
    /\ call = NoCall
    /\ \E u \in Owners, a \in ReadArgs, up \in Up : CrudRead(u, a, up)
    /\ UNCHANGED <<runVars, valVars, agentVars, sessVars, concVars>>

DoCrudUpdate ==
    /\ call = NoCall
    /\ \E id \in IdSpace, u \in Owners, d \in Patches, up \in Up :
        CrudUpdate(id, u, d, up)
    /\ UNCHANGED <<runVars, valVars, agentVars, sessVars, concVars>>

DoCrudDelete ==
    /\ call = NoCall
    /\ \E id \in IdSpace, u \in Owners, up \in Up : CrudDelete(id, u, up)
    /\ UNCHANGED <<runVars, valVars, agentVars, sessVars, concVars>>

\* the facade call has returned and its caller has taken the result; the
\* facades are synchronous, so the next call starts only after that
CallReturns ==
    /\ call # NoCall
    /\ call' = NoCall
    /\ UNCHANGED <<store, nextId, clock, runVars, valVars, agentVars, sessVars, concVars>>

NextGateway ==
    \/ CallReturns
    \/ DoCrudCreate
    \/ DoCrudRead
    \/ DoCrudUpdate
    \/ DoCrudDelete

SpecGateway == InitGateway /\ [][NextGateway]_vars

\* all three facades (WorkoutCRUD, WorkoutDatabase, BaseCRUD) on one table
DoDbSaveWorkout ==
    /\ call = NoCall
    /\ \E u \in Owners, s \in CreateInputs, up \in Up : DbSaveWorkout(u, s, up)
    /\ UNCHANGED <<runVars, valVars, agentVars, sessVars, concVars>>

DoDbGetWorkoutById ==
    /\ call = NoCall
    /\ \E id \in IdSpace, u \in Owners, up \in Up : DbGetWorkoutById(id, u, up)
    /\ UNCHANGED <<runVars, valVars, agentVars, sessVars, concVars>>

DoDbGetUserWorkouts ==
    /\ call = NoCall
    /\ \E u \in Owners, l \in {1, DefaultLimit}, o \in {0, 1}, up \in Up :
        DbGetUserWorkouts(u, l, o, up)
    /\ UNCHANGED <<runVars, valVars, agentVars, sessVars, concVars>>

DoBaseCreate ==
    /\ call = NoCall
    /\ \E u \in Owners, up \in Up :
        BaseCreate(u, ToDbDict(u, CompleteFields), up)
    /\ UNCHANGED <<runVars, valVars, agentVars, sessVars, concVars>>

DoBaseRead ==
    /\ call = NoCall
    /\ \E c \in Owners, id \in IdSpace, up \in Up : BaseRead(c, id, up)
    /\ UNCHANGED <<runVars, valVars, agentVars, sessVars, concVars>>

DoBaseUpdate ==
    /\ call = NoCall
    /\ \E c \in Owners, id \in IdSpace, d \in Patches, up \in Up :
        BaseUpdate(c, id, d, up)
    /\ UNCHANGED <<runVars, valVars, agentVars, sessVars, concVars>>

DoBaseDelete ==
    /\ call = NoCall
    /\ \E c \in Owners, id \in IdSpace, up \in Up : BaseDelete(c, id, up)
    /\ UNCHANGED <<runVars, valVars, agentVars, sessVars, concVars>>

NextFacades ==
    \/ CallReturns
    \/ DoCrudCreate
    \/ DoCrudRead
    \/ DoCrudUpdate
    \/ DoCrudDelete
    \/ DoDbSaveWorkout
    \/ DoDbGetWorkoutById
    \/ DoDbGetUserWorkouts
    \/ DoBaseCreate
    \/ DoBaseRead
    \/ DoBaseUpdate
    \/ DoBaseDelete

SpecFacades == InitGateway /\ [][NextFacades]_vars

\* WorkoutValidator.validate applied to one dict after another
InitValidator ==
    /\ store = {}
    /\ nextId = 1
    /\ clock = 0
    /\ call = NoCall
    /\ RunIdle
    /\ \E v \in ValidatorValues, D \in SUBSET Range(REQUIRED_FIELDS) :
        vin = [k \in D |-> v[k]]
    /\ vout = NotValidated
    /\ RetrieverIdle
    /\ SessionIdle
    /\ ConcIdle

NextValidator ==
    \/ ValidatorCall
    \/ IsCompleteCall

SpecValidator == InitValidator /\ [][NextValidator]_vars

----------------------------------------------------------------------------
(* The nodes behind the two conditional edges of the compiled graph        *)
(* (workout_graph.py:67-104, 156-349), run on the state the node before    *)
(* the edge hands over.  The routing function and the reader, updator and  *)
(* deletor nodes use state.workout_id, which WorkoutState does not         *)
(* declare: st.workout_id = Undeclared is a plain WorkoutState, any other  *)
(* value is a state object that carries the attribute.                     *)

Undeclared == "<undeclared>"

\* str(workout.id): the textual form of a primary key
UuidStr(i) == "uuid-" \o ToString(i)

\* the well-formed identifiers: those of 1..MaxRecords can name a row, the
\* last one never does
UuidSpace == 1..(MaxRecords + 1)

\* UUID(s) succeeds
IsUUID(s) == \E i \in UuidSpace : UuidStr(i) = s

\* UUID(s) for a well-formed s
ParseUUID(s) == CHOOSE i \in UuidSpace : UuidStr(i) = s

\* the values state.workout_id takes
WorkoutIdVals ==
    {Undeclared, NoneS, "the last one"} \cup {UuidStr(i) : i \in UuidSpace}

\* str(e) of the exceptions the nodes catch
MissingFieldsError == "Cannot create workout: missing required fields"
MissingConfigError == "Missing SUPABASE_URL or SUPABASE_KEY environment variables"
BadUuidError == "badly formed hexadecimal UUID string"

\* what client construction / execute() raises when the store is unreachable
StoreErrors == {"ValueError", "APIError"}

\* the responses the nodes write (f-string holes kept as written)
SavedResponse == "Workout saved! {exercise}: {sets}x{reps} @ {weight}"
SaveErrorResponse ==
    "An error occurred while saving your workout. Please try again."
CannotSave(e) == "Cannot save workout: " \o e
UpdateNeedsIdResponse ==
    "Cannot update workout: workout ID is required. Please specify which workout to update."
UpdateNoFieldsResponse ==
    "Cannot update workout: no fields to update. Please specify what to change."

\* the letters str.capitalize() maps
UpperCase == "ABCDEFGHIJKLMNOPQRSTUVWXYZ"
LowerCase == "abcdefghijklmnopqrstuvwxyz"

Char(s, i) == SubSeq(s, i, i)

\* one character through a case mapping
Mapped(c, from, to) ==
    IF \E i \in 1..Len(from) : Char(from, i) = c
    THEN Char(to, CHOOSE i \in 1..Len(from) : Char(from, i) = c)
    ELSE c

\* str.lower()
RECURSIVE Lower(_)
Lower(s) ==
    IF Len(s) = 0 THEN ""
    ELSE Mapped(Char(s, 1), UpperCase, LowerCase) \o Lower(SubSeq(s, 2, Len(s)))

\* str.capitalize(): the first character upper-cased, the rest lower-cased
Capitalize(s) ==
    IF Len(s) = 0 THEN ""
    ELSE Mapped(Char(s, 1), LowerCase, UpperCase) \o Lower(SubSeq(s, 2, Len(s)))

\* how an f-string renders the value v of column k
Str(k, v) ==
    IF v = None(k) THEN "None"
    ELSE IF k \in IntFields THEN ToString(v) ELSE v

\* the order in which lines 270-283 look at update_data
ChangeOrder == <<"sets", "reps", "weight", "exercise", "rest_time", "comments">>

\* the entry appended to `changes` for column k (lines 270-283)
ChangeEntry(k, update_data) ==
    CASE k = "rest_time" ->
            "rest time changed to " \o Str(k, update_data[k]) \o " seconds"
      [] k = "comments" -> "comments updated"
      [] OTHER -> k \o " changed to " \o Str(k, update_data[k])

\* the list `changes` (lines 269-283)
Changes(update_data) ==
    LET named == SelectSeq(ChangeOrder, LAMBDA k : k \in DOMAIN update_data)
    IN  [i \in 1..Len(named) |-> ChangeEntry(named[i], update_data)]

\* sep.join(parts)
RECURSIVE Join(_, _)
Join(parts, sep) ==
    IF Len(parts) = 0 THEN ""
    ELSE IF Len(parts) = 1 THEN parts[1]
    ELSE parts[1] \o sep \o Join(Tail(parts), sep)

\* change_message (line 285)
ChangeMessage(update_data) ==
    IF Len(Changes(update_data)) > 0
    THEN Join(Changes(update_data), ", ") ELSE "workout updated"

RecordNowIs == ". The record now is: "

\* the response of a successful update (lines 286-290)
UpdatedResponse(update_data, updated_workout) ==
    Capitalize(ChangeMessage(update_data)) \o RecordNowIs
        \o Str("exercise", updated_workout.exercise) \o ", "
        \o Str("sets", updated_workout.sets) \o "x"
        \o Str("reps", updated_workout.reps) \o " @ "
        \o Str("weight", updated_workout.weight)
UpdateMissResponse ==
    "Failed to update workout. Workout not found or you don't have permission to update it."
CannotUpdate(e) == "Cannot update workout: " \o e
UpdateErrorResponse ==
    "An error occurred while updating your workout. Please try again."
DeleteNeedsIdResponse ==
    "Cannot delete workout: workout ID is required. Please specify which workout to delete."
DeletedResponse == "Workout deleted successfully."
DeleteMissResponse ==
    "Failed to delete workout. Workout not found or you don't have permission to delete it."
CannotDelete(e) == "Cannot delete workout: " \o e
DeleteErrorResponse ==
    "An error occurred while deleting your workout. Please try again."
ReadErrorResponse ==
    "Sorry, I encountered an error retrieving your workouts. Please try again."

\* _route_by_intent(state): the edge label, or the exception it raises
RouteByIntent_GetDeletes(s) ==
    IF s.intent \in {"get", "delete"} THEN "deletor"
    ELSE IF s.workout_id = Undeclared THEN "AttributeError"
    ELSE IF s.intent = "put" /\ TruthyS(s.workout_id) THEN "updator"
    ELSE "validator"

RouteByIntent(s) ==
    IF s.intent = "get" THEN "reader"
    ELSE IF s.intent = "delete" THEN "deletor"
    ELSE IF s.workout_id = Undeclared THEN "AttributeError"
    ELSE IF s.intent = "put" /\ TruthyS(s.workout_id) THEN "updator"
    ELSE "validator"

\* the mapping of the conditional edges: label -> node
EdgeTarget(label) ==
    CASE label = "reader" -> "workout_reader"
      [] label = "updator" -> "workout_updator"
      [] label = "deletor" -> "workout_deletor"
      [] label = "validator" -> "workout_validator"
      [] label = "database" -> "workout_saver"
      [] label = "end" -> "END"

\* a faulty variant: every put state is saved, whatever the verdict
ShouldSaveToDatabase_IgnoresVerdict(s) ==
    IF s.intent = "put" THEN "database" ELSE "end"

\* _should_save_to_database(state)
ShouldSaveToDatabase(s) ==
    IF s.intent = "put" /\ s.validation_status = "complete"
    THEN "database" ELSE "end"

\* the conditional edge after workout_parser
ParserEdge ==
    /\ pc = "parsed"
    /\ LET label == RouteByIntent(st)
       IN  IF label = "AttributeError"
           THEN escaped' = "AttributeError" /\ pc' = "raised"
           ELSE escaped' = escaped /\ pc' = EdgeTarget(label)
    /\ UNCHANGED <<st, visited, ends, issued, extractor, reply, storeVars, valVars, agentVars, sessVars, concVars>>

\* the conditional edge after workout_validator
ValidatorEdge ==
    /\ pc = "validated"
    /\ pc' = EdgeTarget(ShouldSaveToDatabase(st))
    /\ ends' = IF pc' = "END" THEN ends + 1 ELSE ends
    /\ UNCHANGED <<st, visited, issued, escaped, extractor, reply, storeVars, valVars, agentVars, sessVars, concVars>>

\* _workout_validator_node: validate calls state.get, which the WorkoutState
\* the graph passes does not have; the node has no handler
ValidatorNode ==
    /\ pc = "workout_validator"
    /\ visited' = Append(visited, "workout_validator")
    /\ IF "get" \notin StateFields
       THEN escaped' = "AttributeError" /\ pc' = "raised"
       ELSE escaped' = escaped /\ pc' = "validated"
    /\ UNCHANGED <<st, ends, issued, extractor, reply, storeVars, valVars, agentVars, sessVars, concVars>>

\* what self.reader.retrieve gives: an exception, a JSON list of rows, a
\* JSON object, or the language model's text
RetrieveResults == {"raise", "[{id: ...}, ...]", "{error: ...}", "text"}

\* _workout_reader_node; first is the id of the first row of a JSON list
ReaderNode(result, first) ==
    /\ pc = "workout_reader"
    /\ visited' = Append(visited, "workout_reader")
    /\ st' =
        IF result = "raise"
        THEN [st EXCEPT !.response = ReadErrorResponse]
        ELSE IF result # "[{id: ...}, ...]"
        THEN [st EXCEPT !.response = result]
        ELSE IF st.workout_id = Undeclared
        THEN [st EXCEPT !.response = ReadErrorResponse]
        ELSE [st EXCEPT !.response = result, !.workout_id = UuidStr(first)]
    /\ pc' = "END"
    /\ ends' = ends + 1
    /\ UNCHANGED <<issued, escaped, extractor, reply, storeVars, valVars, agentVars, sessVars, concVars>>

\* a faulty variant: a failed insert is sent a second time
SaverNode_RetriesOnce(up, err) ==
    /\ pc = "workout_saver"
    /\ visited' = Append(visited, "workout_saver")
    /\ CrudCreate(st.user_id, st, up)
    /\ issued' = IF CreateRejects(st) THEN issued
                 ELSE IF up THEN Append(issued, [op |-> "insert", id |-> 0])
                 ELSE issued \o <<[op |-> "insert", id |-> 0],
                                  [op |-> "insert", id |-> 0]>>
    /\ st' = [st EXCEPT !.response =
                IF CreateRejects(st) THEN CannotSave(MissingFieldsError)
                ELSE IF up THEN SavedResponse
                ELSE IF err = "ValueError" THEN CannotSave(MissingConfigError)
                ELSE SaveErrorResponse]
    /\ pc' = "END"
    /\ ends' = ends + 1
    /\ UNCHANGED <<escaped, extractor, reply, valVars, agentVars, sessVars, concVars>>

\* _workout_saver_node; err is what a failing store call raises
SaverNode(up, err) ==
    /\ pc = "workout_saver"
    /\ visited' = Append(visited, "workout_saver")
    /\ CrudCreate(st.user_id, st, up)
    /\ issued' = IF CreateRejects(st) THEN issued
                 ELSE Append(issued, [op |-> "insert", id |-> 0])
    /\ st' = [st EXCEPT !.response =
                IF CreateRejects(st) THEN CannotSave(MissingFieldsError)
                ELSE IF up THEN SavedResponse
                ELSE IF err = "ValueError" THEN CannotSave(MissingConfigError)
                ELSE SaveErrorResponse]
    /\ pc' = "END"
    /\ ends' = ends + 1
    /\ UNCHANGED <<escaped, extractor, reply, valVars, agentVars, sessVars, concVars>>

\* a faulty variant: the patch also carries the owner column
UpdateDataOf_WithOwner(s) ==
    [k \in {x \in WorkoutFields \cup {"user_id"} :
                x = "user_id" \/ s[x] # None(x)} |-> s[k]]

\* update_data as _workout_updator_node builds it (lines 231-243)
UpdateDataOf(s) ==
    [k \in {x \in WorkoutFields : s[x] # None(x)} |-> s[k]]

\* the node leaves through its edge to END having written a response
Responds(response) ==
    /\ st' = [st EXCEPT !.response = response]
    /\ pc' = "END"
    /\ ends' = ends + 1

\* _workout_updator_node
UpdatorNode(up) ==
    /\ pc = "workout_updator"
    /\ visited' = Append(visited, "workout_updator")
    /\ IF st.workout_id = Undeclared
       THEN Responds(UpdateErrorResponse) /\ UNCHANGED <<issued, storeVars>>
       ELSE IF ~TruthyS(st.workout_id)
       THEN Responds(UpdateNeedsIdResponse) /\ UNCHANGED <<issued, storeVars>>
       ELSE IF DOMAIN UpdateDataOf(st) = {}
       THEN Responds(UpdateNoFieldsResponse) /\ UNCHANGED <<issued, storeVars>>
       ELSE IF ~IsUUID(st.workout_id)
       THEN Responds(CannotUpdate(BadUuidError)) /\ UNCHANGED <<issued, storeVars>>
       ELSE LET id == ParseUUID(st.workout_id)
                data == UpdateDataOf(st)
                updated == UpdateData(store, id, st.user_id, data, up)
            IN  /\ Responds(IF UpdateReturn(store, id, st.user_id, data, up) = "record"
                            THEN UpdatedResponse(data, CHOOSE r \in updated : TRUE)
                            ELSE UpdateMissResponse)
                /\ CrudUpdate(id, st.user_id, data, up)
                /\ issued' = Append(issued, [op |-> "update", id |-> id])
    /\ UNCHANGED <<escaped, extractor, reply, valVars, agentVars, sessVars, concVars>>

\* _workout_deletor_node
DeletorNode(up) ==
    /\ pc = "workout_deletor"
    /\ visited' = Append(visited, "workout_deletor")
    /\ IF st.workout_id = Undeclared
       THEN Responds(DeleteErrorResponse) /\ UNCHANGED <<issued, storeVars>>
       ELSE IF ~TruthyS(st.workout_id)
       THEN Responds(DeleteNeedsIdResponse) /\ UNCHANGED <<issued, storeVars>>
       ELSE IF ~IsUUID(st.workout_id)
       THEN Responds(CannotDelete(BadUuidError)) /\ UNCHANGED <<issued, storeVars>>
       ELSE LET id == ParseUUID(st.workout_id)
            IN  /\ Responds(IF DeleteReturn(store, id, st.user_id, up) = "true"
                            THEN DeletedResponse ELSE DeleteMissResponse)
                /\ CrudDelete(id, st.user_id, up)
                /\ issued' = Append(issued, [op |-> "delete", id |-> id])
    /\ UNCHANGED <<escaped, extractor, reply, valVars, agentVars, sessVars, concVars>>

NoFields ==
    [exercise |-> NoneS, sets |-> NoneI, reps |-> NoneI, weight |-> NoneS,
     rest_time |-> NoneI, comments |-> NoneS]

\* the extracted fields of the states handed over
ParsedFields ==
    { NoFields,
      CompleteFields,
      [NoFields EXCEPT !.reps = 10],
      [NoFields EXCEPT !.exercise = "squats"],
      [CompleteFields EXCEPT !.sets = 0],
      [CompleteFields EXCEPT !.weight = NoneS] }

\* the utterance the voice agent passes along with an intent
IntentUtterance(intent, f) ==
    IF intent = "get" THEN ReadUtterance
    ELSE IF intent = "delete" THEN DeleteUtterance
    ELSE IF f.exercise # NoneS /\ f.sets # NoneI THEN LogUtterance
    ELSE UpdateUtterance

\* the state a node hands over: the parser's (entry "parsed") or the
\* validator's (entry "validated")
HandedOver(entry, user_id, intent, f, workout_id) ==
    [user_input |-> IntentUtterance(intent, f), user_id |-> user_id,
     intent |-> intent,
     exercise |-> f.exercise, sets |-> f.sets, reps |-> f.reps,
     weight |-> f.weight, rest_time |-> f.rest_time, comments |-> f.comments,
     validation_status |->
        IF entry = "validated" THEN Validate(f).validation_status ELSE NoneS,
     missing_fields |->
        IF entry = "validated" THEN Validate(f).missing_fields ELSE <<>>,
     response |-> "",
     workout_id |-> workout_id]

Entries == {"parsed", "validated"}

VisitedAt(entry) ==
    IF entry = "parsed" THEN <<"workout_parser">>
    ELSE <<"workout_parser", "workout_validator">>

InitNodes ==
    /\ store \in SeedStores
    /\ nextId = Cardinality(store) + 1
    /\ clock = Cardinality(store)
    /\ call = NoCall
    /\ \E e \in Entries, u \in Owners, i \in Intents, f \in ParsedFields,
          w \in WorkoutIdVals :
        /\ e = "validated" => (w = NoneS /\ i \notin {"get", "delete"})
        /\ pc = e
        /\ st = HandedOver(e, u, i, f, w)
        /\ visited = VisitedAt(e)
    /\ ends = 0
    /\ issued = <<>>
    /\ escaped = "none"
    /\ extractor = "returned"
    /\ reply = ""
    /\ ValidatorIdle
    /\ RetrieverIdle
    /\ SessionIdle
    /\ ConcIdle

\* Gymmando.workout has returned its reply to the voice layer; nothing of the
\* run is kept but what the table holds
RunReturns ==
    /\ pc = "replied"
    /\ pc' = "returned"
    /\ st' = NoState
    /\ visited' = <<>>
    /\ ends' = 0
    /\ issued' = <<>>
    /\ escaped' = "none"
    /\ call' = NoCall
    /\ reply' = ""
    /\ UNCHANGED <<store, nextId, clock, extractor, valVars, agentVars, sessVars, concVars>>

\* the next turn's state reaches the edge (a fresh run; the table persists)
NextHandOver ==
    /\ pc = "returned"
    /\ \E e \in Entries, u \in Owners, i \in Intents, f \in ParsedFields,
          w \in WorkoutIdVals :
        /\ e = "validated" => (w = NoneS /\ i \notin {"get", "delete"})
        /\ pc' = e
        /\ st' = HandedOver(e, u, i, f, w)
        /\ visited' = VisitedAt(e)
    /\ UNCHANGED <<ends, issued, escaped, storeVars, extractor, reply, valVars, agentVars, sessVars, concVars>>

NextNodes ==
    \/ ParserEdge
    \/ ValidatorEdge
    \/ ValidatorNode
    \/ \E r \in RetrieveResults, i \in IdSpace : ReaderNode(r, i)
    \/ \E up \in Up, err \in StoreErrors : SaverNode(up, err)
    \/ \E up \in Up : UpdatorNode(up)
    \/ \E up \in Up : DeletorNode(up)
    \/ ToolReturn
    \/ RunReturns
    \/ NextHandOver

SpecNodes == InitNodes /\ [][NextNodes]_vars

\* the states handed to create in the round trip: the required fields alone
\* and with rest time and comments supplied
RoundTripInputs ==
    { CompleteFields,
      [CompleteFields EXCEPT !.rest_time = 60],
      [CompleteFields EXCEPT !.comments = "felt heavy"],
      [CompleteFields EXCEPT !.rest_time = 0, !.comments = ""],
      [CompleteFields EXCEPT !.exercise = "Back Squats", !.sets = 5,
                             !.rest_time = 60, !.comments = "felt heavy"] }

DoRoundTripCreate ==
    /\ call = NoCall
    /\ \E u \in Owners, s \in RoundTripInputs, up \in Up : CrudCreate(u, s, up)
    /\ UNCHANGED <<runVars, valVars, agentVars, sessVars, concVars>>

\* the caller of a successful create reads the record back by the id it got
DoReadBack ==
    /\ call.op = "create"
    /\ call.ret = "record"
    /\ \E up \in Up : DbGetWorkoutById(call.rows[1].id, call.caller, up)
    /\ UNCHANGED <<runVars, valVars, agentVars, sessVars, concVars>>

NextRoundTrip ==
    \/ DoRoundTripCreate
    \/ DoReadBack
    \/ DoCrudDelete
    \/ CallReturns

SpecRoundTrip == InitGateway /\ [][NextRoundTrip]_vars

\* one voice session from the assignment of the job
InitSession ==
    /\ store = {}
    /\ nextId = 1
    /\ clock = 0
    /\ call = NoCall
    /\ RunIdle
    /\ ValidatorIdle
    /\ sess = [NoSession EXCEPT !.pc = "assigned"]
    /\ RetrieverIdle
    /\ ConcIdle

NextSession ==
    \/ ParticipantJoins
    \/ EntryConnect
    \/ EntryAfterWait
    \/ SessionStarts
    \/ EntryAfterStart
    \/ SessionTurn

SpecSession == InitSession /\ [][NextSession]_vars

\* the extracted fields of the states that reach workout_updator
UpdateFields ==
    { NoFields,
      CompleteFields,
      [NoFields EXCEPT !.reps = 10],
      [NoFields EXCEPT !.rest_time = 90],
      [NoFields EXCEPT !.exercise = "Back Squats", !.comments = "felt heavy"],
      [NoFields EXCEPT !.sets = 5, !.rest_time = 90, !.comments = ""],
      [NoFields EXCEPT !.exercise = ""] }

\* the update stage alone: the parser's edge has routed a put state with a
\* target to workout_updator
InitUpdator ==
    /\ store \in SeedStores
    /\ nextId = Cardinality(store) + 1
    /\ clock = Cardinality(store)
    /\ call = NoCall
    /\ \E u \in Owners, f \in UpdateFields, w \in WorkoutIdVals :
        /\ RouteByIntent(HandedOver("parsed", u, "put", f, w)) = "updator"
        /\ st = HandedOver("parsed", u, "put", f, w)
    /\ pc = "workout_updator"
    /\ visited = VisitedAt("parsed")
    /\ ends = 0
    /\ issued = <<>>
    /\ escaped = "none"
    /\ extractor = "returned"
    /\ reply = ""
    /\ ValidatorIdle
    /\ RetrieverIdle
    /\ SessionIdle
    /\ ConcIdle

NextUpdator ==
    \/ \E up \in Up : UpdatorNode(up)
    \/ ToolReturn

SpecUpdator == InitUpdator /\ [][NextUpdator]_vars

\* the extracted fields of the two concurrent update turns
ConcFields ==
    { NoFields,
      [NoFields EXCEPT !.sets = 5],
      [NoFields EXCEPT !.sets = 4, !.weight = "225 lbs"],
      [NoFields EXCEPT !.reps = 8, !.comments = "felt heavy"] }

\* the rows the concurrent turns name
ConcTargets == {UuidStr(1), UuidStr(2)}

\* a concurrent turn that has been routed to its mutation node
TurnAt(user_id, intent, f, workout_id) ==
    [pc |-> IF intent = "delete" THEN "workout_deletor" ELSE "workout_updator",
     st |-> HandedOver("parsed", user_id, intent, f, workout_id),
     update_data |-> <<>>]

\* the turn's node writes a response and leaves for END
TurnResponds(t, response) ==
    conc' = [conc EXCEPT !.turns[t].st.response = response,
                         !.turns[t].pc = "END"]

\* _workout_updator_node up to the store call: the guards and update_data,
\* built from the turn's own state (lines 224-253); the table is not read
TurnBuilds(t) ==
    LET s == conc.turns[t].st
    IN  /\ conc.turns[t].pc = "workout_updator"
        /\ IF s.workout_id = Undeclared
           THEN TurnResponds(t, UpdateErrorResponse)
           ELSE IF ~TruthyS(s.workout_id)
           THEN TurnResponds(t, UpdateNeedsIdResponse)
           ELSE IF DOMAIN UpdateDataOf(s) = {}
           THEN TurnResponds(t, UpdateNoFieldsResponse)
           ELSE IF ~IsUUID(s.workout_id)
           THEN TurnResponds(t, CannotUpdate(BadUuidError))
           ELSE conc' = [conc EXCEPT !.turns[t].update_data = UpdateDataOf(s),
                                     !.turns[t].pc = "database.update"]
        /\ UNCHANGED <<storeVars, runVars, valVars, agentVars, sessVars>>

\* self.database.update(...) of the turn, one statement at the table, and the
\* response built from what it returned (lines 259-300)
TurnApplies(t, up) ==
    LET s == conc.turns[t].st
        id == ParseUUID(s.workout_id)
        data == conc.turns[t].update_data
        updated == UpdateData(store, id, s.user_id, data, up)
        hit == UpdateReturn(store, id, s.user_id, data, up) = "record"
    IN  /\ conc.turns[t].pc = "database.update"
        /\ CrudUpdate(id, s.user_id, data, up)
        /\ conc' = [conc EXCEPT
                !.turns[t].st.response =
                    IF hit THEN UpdatedResponse(data, CHOOSE r \in updated : TRUE)
                    ELSE UpdateMissResponse,
                !.turns[t].pc = "END",
                !.applied = IF hit THEN Append(@, t) ELSE @]
        /\ UNCHANGED <<runVars, valVars, agentVars, sessVars>>

\* two update turns of separate sessions have been routed to workout_updator
\* over a seeded table
InitConcurrent ==
    /\ store \in SeedStores \ {{}}
    /\ nextId = Cardinality(store) + 1
    /\ clock = Cardinality(store)
    /\ call = NoCall
    /\ RunIdle
    /\ ValidatorIdle
    /\ RetrieverIdle
    /\ SessionIdle
    /\ \E u1, u2 \in Owners, f1, f2 \in ConcFields, w1, w2 \in ConcTargets :
          conc = [turns |-> <<TurnAt(u1, "put", f1, w1),
                              TurnAt(u2, "put", f2, w2)>>,
                  applied |-> <<>>,
                  orig |-> store]

NextConcurrent ==
    \/ \E t \in 1..Len(conc.turns) : TurnBuilds(t)
    \/ \E t \in 1..Len(conc.turns), up \in Up : TurnApplies(t, up)

SpecConcurrent == InitConcurrent /\ [][NextConcurrent]_vars

\* _workout_deletor_node of a concurrent turn: the guards and
\* self.database.delete(...), one statement at the table
TurnDeletes(t, up) ==
    LET s == conc.turns[t].st
        id == ParseUUID(s.workout_id)
        hit == DeleteReturn(store, id, s.user_id, up) = "true"
    IN  /\ conc.turns[t].pc = "workout_deletor"
        /\ IF s.workout_id = Undeclared
           THEN TurnResponds(t, DeleteErrorResponse) /\ UNCHANGED storeVars
           ELSE IF ~TruthyS(s.workout_id)
           THEN TurnResponds(t, DeleteNeedsIdResponse) /\ UNCHANGED storeVars
           ELSE IF ~IsUUID(s.workout_id)
           THEN TurnResponds(t, CannotDelete(BadUuidError)) /\ UNCHANGED storeVars
           ELSE /\ CrudDelete(id, s.user_id, up)
                /\ conc' = [conc EXCEPT
                        !.turns[t].st.response =
                            IF hit THEN DeletedResponse ELSE DeleteMissResponse,
                        !.turns[t].pc = "END",
                        !.applied = IF hit THEN Append(@, t) ELSE @]
        /\ UNCHANGED <<runVars, valVars, agentVars, sessVars>>

\* the tables the racing turns start from: the owner of the target holds one
\* row or two
RaceStores ==
    { {SeedRow(1, "alice"), SeedRow(2, "alice")},
      {SeedRow(1, "alice"), SeedRow(2, "bob")} }

\* the extracted fields of the racing turns
RaceFields == {NoFields, [NoFields EXCEPT !.sets = 5]}

\* two update or delete turns of separate sessions hold a target that named
\* a row when their parser nodes returned
InitRace ==
    /\ store \in RaceStores
    /\ nextId = Cardinality(store) + 1
    /\ clock = Cardinality(store)
    /\ call = NoCall
    /\ RunIdle
    /\ ValidatorIdle
    /\ RetrieverIdle
    /\ SessionIdle
    /\ \E u1, u2 \in Owners, i1, i2 \in {"put", "delete"},
          f1, f2 \in RaceFields, w1, w2 \in ConcTargets :
          /\ EqIdUser(store, ParseUUID(w1), u1) # {}
          /\ EqIdUser(store, ParseUUID(w2), u2) # {}
          /\ conc = [turns |-> <<TurnAt(u1, i1, f1, w1), TurnAt(u2, i2, f2, w2)>>,
                     applied |-> <<>>,
                     orig |-> store]

NextRace ==
    \/ \E t \in 1..Len(conc.turns) : TurnBuilds(t)
    \/ \E t \in 1..Len(conc.turns), up \in Up : TurnApplies(t, up)
    \/ \E t \in 1..Len(conc.turns), up \in Up : TurnDeletes(t, up)

SpecRace == InitRace /\ [][NextRace]_vars

\* WorkoutRetriever.retrieve called again and again over a seeded table
NextRetriever ==
    \/ \E u \in Owners, c \in ToolCalls : Retrieve(u, c)
    \/ \E u \in Owners : RetrieveModelRaises(u)

SpecRetriever == Init /\ [][NextRetriever]_vars

----------------------------------------------------------------------------
(* Properties *)

\* the run has returned or raised
Finished == pc \in {"raised", "END", "replied"}

\* id names a row that exists and belongs to an owner other than user_id
Foreign(rows, id, user_id) ==
    \E r \in rows : r.id = id /\ r.user_id # user_id

\* the step is a facade call of the given api and op
Calls(api, op) ==
    call = NoCall /\ call'.api = api /\ call'.op = op

NoDuplicates(q) == \A i, j \in 1..Len(q) : i # j => q[i] # q[j]

\* the required fields that are absent or empty in d
MissingRequired(d) ==
    {k \in Range(REQUIRED_FIELDS) :
        \/ k \notin DOMAIN d
        \/ d[k] = None(k)
        \/ (k \in StrFields /\ d[k] = "")}

\* C1: every run whose Field Extractor call returns normally reaches END
\* exactly once, having visited workout_parser first, at most two further
\* nodes, and no node twice.
C1_RunReachesEndOnce ==
    (Finished /\ extractor = "returned") =>
        /\ ends = 1
        /\ escaped = "none"
        /\ Len(visited) \in 1..3
        /\ visited[1] = "workout_parser"
        /\ NoDuplicates(visited)

\* C2: a create turn (intent put, a logging utterance) whose four required
\* fields are all present goes parser -> validator -> saver and issues
\* exactly one insert and no update or delete, whatever the table holds.
C2_CreateTurnInsertsOnce ==
    (/\ Finished
     /\ extractor = "returned"
     /\ st.intent = "put"
     /\ st.user_input = LogUtterance
     /\ MissingRequired(st) = {}) =>
        /\ visited = <<"workout_parser", "workout_validator", "workout_saver">>
        /\ Len(issued) = 1
        /\ issued[1].op = "insert"

\* the ids of user_id's rows with the greatest created_at
MostRecentIds(rows, user_id) ==
    {r.id : r \in {x \in EqUser(rows, user_id) :
                    \A y \in EqUser(rows, user_id) : y.created_at <= x.created_at}}

\* C3: an update or delete turn with no explicit target first queries the
\* table for the owner's most recent row, and when the owner has a row the
\* mutation it issues targets that row's id, whichever fields were extracted.
C3_ImplicitTargetResolved ==
    (/\ Finished
     /\ extractor = "returned"
     /\ \/ st.intent = "delete"
        \/ st.intent = "put" /\ st.user_input = UpdateUtterance) =>
        /\ issued # <<>>
        /\ issued[1].op = "query"
        /\ EqUser(store, st.user_id) # {} =>
            \E i \in 2..Len(issued) :
                /\ issued[i].op \in {"update", "delete"}
                /\ issued[i].id \in MostRecentIds(store, st.user_id)

\* C4: WorkoutCRUD.update and WorkoutCRUD.delete called with the id of a row
\* that belongs to another owner leave the table as it was and return
\* None / False.
C4_ForeignMutationIsNoop ==
    [][ ((Calls("WorkoutCRUD", "update") \/ Calls("WorkoutCRUD", "delete"))
            /\ Foreign(store, call'.id, call'.caller)) =>
        (store' = store /\ call'.ret \in {"none", "false"}) ]_vars

C4_Witness ==
    /\ call.api = "WorkoutCRUD"
    /\ call.op = "update"
    /\ call.up
    /\ Foreign(store, call.id, call.caller)
    /\ call.ret = "none"

\* C5: no facade operation returns, modifies or deletes a row whose owner
\* differs from the owner the call is made for.
C5_EveryOperationOwnerScoped ==
    \A i \in 1..Len(call.rows) : call.rows[i].user_id = call.caller

C7_ExtractorFailureHandled ==
    (Finished /\ extractor = "raised") =>
        /\ escaped = "none"
        /\ ends = 1
        /\ issued = <<>>
        /\ st.response # ""

\* C8: a create turn with a required field absent or empty issues no insert
\* and ends with a response naming exactly the missing required fields.
C8_IncompleteCreateListsMissing ==
    (/\ Finished
     /\ extractor = "returned"
     /\ st.intent = "put"
     /\ st.user_input = LogUtterance
     /\ MissingRequired(st) # {}) =>
        /\ ends = 1
        /\ \A i \in 1..Len(issued) : issued[i].op # "insert"
        /\ Range(st.missing_fields) = MissingRequired(st)
        /\ st.response # ""

\* C9: validate's missing list is exactly the required fields that are
\* absent, None or the empty string, the verdict is complete iff the list
\* is empty, and a value of 0 counts as present.
C9_ValidatorExact ==
    vout.done =>
        /\ Range(vout.missing_fields) = MissingRequired(vin)
        /\ NoDuplicates(vout.missing_fields)
        /\ vout.validation_status = "complete" <=> vout.missing_fields = <<>>
        /\ vout.validation_status \in {"complete", "incomplete"}
        /\ \A k \in DOMAIN vin :
            (k \in IntFields /\ vin[k] = 0) => k \notin Range(vout.missing_fields)

C9_Witness ==
    /\ vout.done
    /\ DOMAIN vin = {"exercise", "sets", "weight"}
    /\ vin["sets"] = 0
    /\ vin["exercise"] = ""
    /\ vout.missing_fields = <<"exercise", "reps">>

\* C10: a successful WorkoutCRUD.update sets exactly the patched columns of
\* the targeted row; its other columns and every other row stay as they were.
C10_UpdateChangesOnlyPatch ==
    [][ (Calls("WorkoutCRUD", "update") /\ call'.ret = "record") =>
        \E r \in store :
            /\ r.id = call'.id
            /\ r.user_id = call'.caller
            /\ Len(call'.rows) = 1
            /\ \A k \in Columns :
                call'.rows[1][k] =
                    IF k \in DOMAIN call'.data THEN call'.data[k] ELSE r[k]
            /\ store' = (store \ {r}) \cup {call'.rows[1]} ]_vars

C10_Witness ==
    /\ call.api = "WorkoutCRUD"
    /\ call.op = "update"
    /\ call.ret = "record"
    /\ DOMAIN call.data = {"sets"}
    /\ call.rows[1].sets = 5
    /\ call.rows[1].reps = 10
    /\ call.rows[1].weight = "225 lbs"
    /\ Cardinality(store) = 2

\* the node the run entered last
LastNode == IF visited = <<>> THEN "" ELSE visited[Len(visited)]

\* how many of the issued store operations are mutations
Mutations(q) ==
    Cardinality({i \in 1..Len(q) : q[i].op \in {"insert", "update", "delete"}})

\* C11: through any sequence of runs, a row's id keeps its owner (and its
\* creation time), and the patch the updator node sends to WorkoutCRUD.update
\* never names id, user_id or created_at.
C11_IdentityImmutable ==
    [][ /\ \A r \in store, r2 \in store' :
            r.id = r2.id =>
                (r2.user_id = r.user_id /\ r2.created_at = r.created_at)
        /\ (pc = "workout_updator" /\ call'.op = "update") =>
            DOMAIN call'.data \cap {"id", "user_id", "created_at"} = {} ]_vars

C11_Witness ==
    /\ pc = "END"
    /\ LastNode = "workout_updator"
    /\ call.op = "update"
    /\ call.ret = "record"
    /\ DOMAIN call.data = {"reps"}
    /\ st.response = UpdatedResponse(call.data, call.rows[1])

\* C12: a run issues at most one mutating store call, a run with intent get
\* issues none, and every step leaves the table either as it was or with
\* that one call's whole effect (one row inserted, one row patched with the
\* whole patch, or one row removed).
C12_OneMutationPerTurn ==
    [][ /\ Mutations(issued') <= 1
        /\ st'.intent = "get" => Mutations(issued') = 0
        /\ \/ store' = store
           \/ /\ Mutations(issued) = 0
              /\ Mutations(issued') = 1
              /\ \/ \E row \in store' : row.id \notin {r.id : r \in store}
                                        /\ store' = store \cup {row}
                 \/ \E r \in store : store' = store \ {r}
                 \/ \E r \in store :
                       store' = (store \ {r}) \cup {Patched(r, call'.data)} ]_vars

C12_Witness ==
    /\ pc = "END"
    /\ LastNode = "workout_saver"
    /\ Len(issued) = 1
    /\ issued[1].op = "insert"
    /\ call.ret = "record"
    /\ Cardinality(store) = 2

\* C13: a delete turn with no explicit target either issues exactly one
\* delete and confirms the deletion (the owner had a row), or, the owner
\* having no row, issues no delete and answers that a target is needed.
C13_DeleteLastResolves ==
    (Finished /\ extractor = "returned" /\ st.intent = "delete") =>
        LET dels == {i \in 1..Len(issued) : issued[i].op = "delete"}
        IN  \/ /\ Cardinality(dels) = 1
               /\ st.response = DeletedResponse
            \/ /\ dels = {}
               /\ EqUser(store, st.user_id) = {}
               /\ st.response = DeleteNeedsIdResponse
            \/ /\ dels = {}
               /\ Cardinality(EqUser(store, st.user_id)) >= 2

\* C14: an update turn with no explicit target whose owner has no row
\* reaches workout_updator without a target, answers that a target is
\* needed, and issues no insert, update or delete.
C14_UpdateWithoutTargetAsks ==
    (/\ Finished
     /\ extractor = "returned"
     /\ st.intent = "put"
     /\ st.user_input = UpdateUtterance
     /\ EqUser(store, st.user_id) = {}) =>
        /\ visited = <<"workout_parser", "workout_updator">>
        /\ st.response = UpdateNeedsIdResponse
        /\ Mutations(issued) = 0

\* C15: an update turn whose extracted fields are all absent issues no
\* update and no insert and ends with a non-empty response.
C15_EmptyUpdateAnswers ==
    (/\ Finished
     /\ extractor = "returned"
     /\ st.intent = "put"
     /\ st.user_input = UpdateUtterance
     /\ \A k \in WorkoutFields : st[k] = None(k)) =>
        /\ Mutations(issued) = 0
        /\ ends = 1
        /\ st.response # ""

\* C16: when the store is unreachable, WorkoutCRUD.read does not return the
\* empty list, update does not return None and delete does not return False.
C16_UnavailabilityDistinguishable ==
    (call.api = "WorkoutCRUD" /\ ~call.up) =>
        /\ call.op = "read" => ~(call.ret = "list" /\ call.rows = <<>>)
        /\ call.op = "update" => call.ret # "none"
        /\ call.op = "delete" => call.ret # "false"

\* the fixed messages of the failure paths of the three mutation nodes
GenericResponses ==
    {"Failed to save workout. Please try again.", SaveErrorResponse,
     UpdateNeedsIdResponse, UpdateNoFieldsResponse, UpdateMissResponse,
     UpdateErrorResponse, DeleteNeedsIdResponse, DeleteMissResponse,
     DeleteErrorResponse}

ExceptionTexts == {MissingFieldsError, MissingConfigError, BadUuidError}

\* the response carries str(e) of an exception
Exposes(response) ==
    \E e \in ExceptionTexts :
        response \in {CannotSave(e), CannotUpdate(e), CannotDelete(e)}

\* C17: on every failure path of the saver, updator and deletor nodes the
\* response written to the state is one of the fixed messages and never
\* carries the text of the exception.
C17_FailureResponsesGeneric ==
    (/\ pc = "END"
     /\ LastNode \in {"workout_saver", "workout_updator", "workout_deletor"}
     /\ ~(call.op = "update" /\ call.ret = "record")
     /\ st.response \notin {SavedResponse, DeletedResponse}) =>
        /\ st.response \in GenericResponses
        /\ ~Exposes(st.response)

\* C18: an update or delete run whose target is not a well-formed UUID
\* issues no store mutation and answers exactly as it does for a well-formed
\* id that names no row of the owner.
C18_MalformedIdLooksMissing ==
    (/\ pc = "END"
     /\ LastNode \in {"workout_updator", "workout_deletor"}
     /\ st.workout_id # Undeclared
     /\ TruthyS(st.workout_id)
     /\ ~IsUUID(st.workout_id)) =>
        /\ Mutations(issued) = 0
        /\ st.response =
            IF LastNode = "workout_deletor" THEN DeleteMissResponse
            ELSE IF DOMAIN UpdateDataOf(st) = {} THEN UpdateNoFieldsResponse
            ELSE UpdateMissResponse

\* C19: every argument dict the retrieval agent prepares, the one it hands
\* to query_workouts and the store query made from it carry the owner id
\* given to retrieve(), whatever user_id the language model proposed; the
\* other arguments are the model's, so the query does not depend on the
\* proposed user_id.
C19_OwnerForced ==
    rt.pc = "done" =>
        /\ \A i \in 1..Len(rt.forced) :
            /\ rt.forced[i]["user_id"] = rt.user_id
            /\ DOMAIN rt.forced[i] = DOMAIN rt.tool_calls[i].args \cup {"user_id"}
            /\ \A k \in DOMAIN rt.forced[i] \ {"user_id"} :
                rt.forced[i][k] = rt.tool_calls[i].args[k]
        /\ \A i \in 1..Len(rt.invoked) : rt.invoked[i]["user_id"] = rt.user_id
        /\ \A i \in 1..Len(rt.queries) :
            LET args == rt.tool_calls[FirstQueryCall(rt.tool_calls)].args
            IN  /\ rt.queries[i]["user_id"] = rt.user_id
                /\ rt.queries[i]["exercise"] =
                    IF "exercise" \in DOMAIN args THEN args["exercise"] ELSE NoneS
                /\ rt.queries[i]["order_direction"] =
                    IF "order_direction" \in DOMAIN args
                    THEN args["order_direction"] ELSE "desc"

C19_Witness ==
    /\ rt.pc = "done"
    /\ rt.user_id = "alice"
    /\ Len(rt.tool_calls) = 1
    /\ "user_id" \in DOMAIN rt.tool_calls[1].args
    /\ rt.tool_calls[1].args["user_id"] = "bob"
    /\ Len(rt.queries) = 1
    /\ rt.queries[1]["user_id"] = "alice"

C21_ReplyIsResponse ==
    pc = "replied" => reply = st.response

\* C22: a read turn enters workout_reader, which stores the retrieval
\* agent's answer as the response, issues no insert, update or delete, and
\* lets no exception out of the run.
C22_ReadTurnStoresAnswer ==
    (Finished /\ extractor = "returned" /\ st.intent = "get") =>
        /\ visited = <<"workout_parser", "workout_reader">>
        /\ ends = 1
        /\ escaped = "none"
        /\ st.response # ""
        /\ Mutations(issued) = 0

\* t occurs in s
Contains(s, t) ==
    \E i \in 1..(Len(s) - Len(t) + 1) : SubSeq(s, i, i + Len(t) - 1) = t

\* the first position of t in s, 0 when there is none
IndexOf(s, t) ==
    IF Contains(s, t)
    THEN CHOOSE i \in 1..(Len(s) - Len(t) + 1) :
            /\ SubSeq(s, i, i + Len(t) - 1) = t
            /\ \A j \in 1..(i - 1) : SubSeq(s, j, j + Len(t) - 1) # t
    ELSE 0

RECURSIVE Split(_, _)
Split(s, sep) ==
    LET i == IndexOf(s, sep)
    IN  IF i = 0 THEN <<s>>
        ELSE <<SubSeq(s, 1, i - 1)>> \o Split(SubSeq(s, i + Len(sep), Len(s)), sep)

\* the entries a successful update's response lists before the record summary
ListedEntries(response) ==
    Split(Lower(SubSeq(response, 1, IndexOf(response, RecordNowIs) - 1)), ", ")

\* the words by which an entry names column k
Label(k) == IF k = "rest_time" THEN "rest time" ELSE k

EntryNames(entry, k) ==
    Len(entry) >= Len(Label(k)) /\ SubSeq(entry, 1, Len(Label(k))) = Label(k)

SuccessfulUpdate ==
    /\ pc = "END"
    /\ LastNode = "workout_updator"
    /\ call.op = "update"
    /\ call.ret = "record"

\* C23: the response of a successful update lists one entry for each column
\* of the patch and none for any other column, and the entry of a column
\* carries the column's new value (letter case aside).
C23_UpdateResponseListsPatch ==
    SuccessfulUpdate =>
        LET entries == ListedEntries(st.response)
        IN  /\ Len(entries) = Cardinality(DOMAIN call.data)
            /\ \A k \in WorkoutFields :
                  LET mine == {i \in 1..Len(entries) : EntryNames(entries[i], k)}
                  IN  IF k \in DOMAIN call.data
                      THEN /\ Cardinality(mine) = 1
                           /\ \A i \in mine :
                                Contains(entries[i], Lower(Str(k, call.data[k])))
                      ELSE mine = {}

\* the required fields that are absent (None) in the state s
AbsentRequired(s) == {k \in Range(REQUIRED_FIELDS) : s[k] = None(k)}

\* C24: a create call of WorkoutCRUD or WorkoutDatabase on a state in which
\* exercise, sets, reps or weight is absent raises ValueError without sending
\* an insert: the table and the id sequence stay as they were.
C24_IncompleteCreateRejected ==
    [][ (/\ call = NoCall
         /\ call'.api \in {"WorkoutCRUD", "WorkoutDatabase"}
         /\ call'.op = "create"
         /\ AbsentRequired(call'.data) # {}) =>
            /\ call'.ret = "ValueError"
            /\ store' = store
            /\ nextId' = nextId ]_vars

C24_Witness ==
    /\ call.api = "WorkoutCRUD"
    /\ call.op = "create"
    /\ call.up
    /\ AbsentRequired(call.data) = {"weight"}
    /\ call.ret = "ValueError"
    /\ Cardinality(store) < MaxRecords

\* C25: WorkoutCRUD.read returns only rows of the given owner that pass the
\* filters, newest first when the direction is the default, and never more
\* rows than limit (DefaultLimit when limit is None), whatever limit is.
C25_ReadBounded ==
    (call.api = "WorkoutCRUD" /\ call.op = "read" /\ call.up) =>
        /\ Range(call.rows) \subseteq ReadFilter(store, call.caller, call.data)
        /\ call.data.order_direction = "desc" =>
              \A i, j \in 1..Len(call.rows) :
                  i < j => call.rows[i].created_at >= call.rows[j].created_at
        /\ Len(call.rows) <=
              (IF call.data.limit = NoneI THEN DefaultLimit ELSE call.data.limit)

\* C30: a state validate finds complete passes the required-field check of
\* WorkoutCRUD.create, also when sets or reps is 0.
C30_CompleteIsCreatable ==
    (vout.done /\ vout.validation_status = "complete") =>
        ~CreateRejects([k \in Range(REQUIRED_FIELDS) |-> Get(vin, k)])

\* id was handed out by the table and its row has been deleted since
Deleted(id) == id < nextId /\ EqId(store, id) = {}

\* C27: a successful delete removes the row, and from then on the id names
\* nothing: no step brings the row back, no call returns it, a point-read,
\* update or delete of it answers None / False, and such a call leaves the
\* table as it was.
C27_DeletePermanent ==
    [][ \A id \in IdSpace :
          /\ (call = NoCall /\ call'.op = "delete" /\ call'.id = id
                /\ call'.ret = "true") => EqId(store', id) = {}
          /\ Deleted(id) =>
                /\ EqId(store', id) = {}
                /\ call = NoCall =>
                      /\ \A i \in 1..Len(call'.rows) : call'.rows[i].id # id
                      /\ (call'.id = id
                            /\ call'.op \in {"read_one", "update", "delete"}) =>
                            /\ \/ call'.ret \in {"none", "false"}
                               \/ call'.api = "BaseCRUD" /\ ~call'.up
                            /\ store' = store ]_vars

C27_Witness ==
    /\ call.api = "WorkoutCRUD"
    /\ call.op = "delete"
    /\ call.up
    /\ Deleted(call.id)
    /\ call.ret = "false"
    /\ store # {}

\* the step reads back, with the store reachable, the record the create call
\* before it returned
ReadsBack ==
    /\ call.op = "create"
    /\ call.ret = "record"
    /\ call'.op = "read_one"
    /\ call'.up

\* C26: reading a record back by the id create returned, for the same owner,
\* returns a record that carries the owner and every field value submitted
\* to create: exercise, sets, reps, weight, and rest time and comments when
\* they were supplied.
C26_RoundTrip ==
    [][ ReadsBack =>
            /\ call'.ret = "record"
            /\ Len(call'.rows) = 1
            /\ call'.rows[1].id = call.rows[1].id
            /\ call'.rows[1].user_id = call.caller
            /\ \A k \in WorkoutFields :
                  call.data[k] # None(k) => call'.rows[1][k] = call.data[k] ]_vars

C26_Witness ==
    /\ call.api = "WorkoutDatabase"
    /\ call.op = "read_one"
    /\ call.up
    /\ call.ret = "record"
    /\ call.rows[1].rest_time = 60
    /\ call.rows[1].comments = "felt heavy"
    /\ call.rows[1].exercise = "Back Squats"
    /\ call.rows[1].id = 2

\* the nodes that call the store or the retrieval agent
CallingNodes ==
    {"workout_reader", "workout_saver", "workout_updator", "workout_deletor"}

\* how many store operations of kind op the run has issued
Issued(op) == Cardinality({i \in 1..Len(issued) : issued[i].op = op})

\* C28: a run enters no node twice and issues each kind of store operation
\* at most once, and a node that calls the store or the retrieval agent
\* leaves the run at END with a response and no exception, whether the call
\* succeeded or failed.
C28_NoRetryAndFailuresAnswered ==
    [][ /\ NoDuplicates(visited')
        /\ \A op \in {"query", "insert", "update", "delete"} : Issued(op)' <= 1
        /\ pc \in CallingNodes =>
              /\ pc' = "END"
              /\ escaped' = "none"
              /\ st'.response # "" ]_vars

C28_Witness ==
    /\ pc = "END"
    /\ LastNode = "workout_saver"
    /\ call.op = "create"
    /\ ~call.up
    /\ call.ret = "raise"
    /\ Issued("insert") = 1
    /\ escaped = "none"
    /\ st.response = SaveErrorResponse

\* C37: on every dict, is_complete returns True exactly when validate finds
\* it complete, also when a required numeric field is 0.
C37_IsCompleteAgreesWithValidate ==
    (vout.done /\ vout.is_complete # "") =>
        (vout.is_complete = "True" <=> vout.validation_status = "complete")

\* C35: all workout turns of a session run under one owner id.
C35_OneOwnerPerSession ==
    \A i, j \in 1..Len(sess.turns) : sess.turns[i] = sess.turns[j]

\* the positions of the tool calls named query_workouts
QueryCalls(tool_calls) ==
    {i \in 1..Len(tool_calls) : tool_calls[i].name = "query_workouts"}

\* C36: a retrieve call that the language model answers runs the tool at
\* most once and attempts at most one store query: for the first tool call
\* named query_workouts, with the caller's id as user_id, and its result is
\* what retrieve returns; no other tool call runs anything; with no
\* query_workouts call the model's text is returned and nothing is queried.
C36_AtMostOneQuery ==
    (rt.pc = "done" /\ rt.result # "raise") =>
        /\ Len(rt.invoked) <= 1
        /\ Len(rt.queries) <= 1
        /\ Len(rt.queries) = Len(rt.invoked)
        /\ QueryCalls(rt.tool_calls) = {} =>
              /\ rt.invoked = <<>>
              /\ rt.result = "{response.content}"
        /\ QueryCalls(rt.tool_calls) # {} =>
              \E i \in QueryCalls(rt.tool_calls) :
                  /\ \A j \in QueryCalls(rt.tool_calls) : i <= j
                  /\ rt.invoked =
                        <<("user_id" :> rt.user_id) @@ rt.tool_calls[i].args>>
                  /\ rt.result = QueryWorkoutsImpl(store, rt.invoked[1])

C36_Witness ==
    /\ rt.pc = "done"
    /\ Len(rt.tool_calls) = 2
    /\ QueryCalls(rt.tool_calls) = {1, 2}
    /\ Len(rt.invoked) = 1
    /\ "exercise" \notin DOMAIN rt.invoked[1]

\* C31: every row of the table has exercise, sets, reps and weight present
\* and non-empty, whatever update runs have been made on it.
C31_RowsKeepRequiredFields ==
    \A r \in store : MissingRequired(r) = {}

\* C32: a run stands at workout_saver only with intent put, verdict complete
\* and the validator behind it, and at workout_updator only with a non-empty
\* target in its state.
C32_SaverAndUpdatorGuarded ==
    /\ pc = "workout_saver" =>
          /\ st.intent = "put"
          /\ st.validation_status = "complete"
          /\ visited = <<"workout_parser", "workout_validator">>
    /\ pc = "workout_updator" =>
          /\ st.intent = "put"
          /\ st.workout_id \notin {Undeclared, NoneS, ""}
          /\ visited = <<"workout_parser">>

C32_Witness ==
    /\ pc = "workout_saver"
    /\ st.intent = "put"
    /\ st.sets = 0
    /\ store # {}

\* the applied patches, in the order the table executed them, that hit the
\* row id and supplied the column k
Suppliers(id, k) ==
    {i \in 1..Len(conc.applied) :
        /\ ParseUUID(conc.turns[conc.applied[i]].st.workout_id) = id
        /\ k \in DOMAIN conc.turns[conc.applied[i]].update_data}

Latest(S) == CHOOSE i \in S : \A j \in S : j <= i

\* C33: while update turns on one record interleave, every patch reaches the
\* table whole and once, and each column of the record holds the value of the
\* last-applied patch that supplied it, or its original value when no applied
\* patch supplied it; no row appears or disappears
C33_LastWriteWinsPerField ==
    /\ \A i, j \in 1..Len(conc.applied) :
          conc.applied[i] = conc.applied[j] => i = j
    /\ {r.id : r \in store} = {r.id : r \in conc.orig}
    /\ \A r \in store : \A o \in conc.orig : r.id = o.id =>
          \A k \in DOMAIN r :
             r[k] = IF Suppliers(r.id, k) = {} THEN o[k]
                    ELSE conc.turns[conc.applied[Latest(Suppliers(r.id, k))]]
                             .update_data[k]

\* both turns have patched the same record: both supplied sets with
\* different values, only the first-applied one supplied weight, neither
\* supplied reps
C33_Witness ==
    /\ Len(conc.applied) = 2
    /\ \A t \in 1..2 : conc.turns[t].pc = "END"
    /\ conc.turns[1].st.workout_id = conc.turns[2].st.workout_id
    /\ \A t \in 1..2 : "sets" \in DOMAIN conc.turns[t].update_data
    /\ conc.turns[1].update_data["sets"] # conc.turns[2].update_data["sets"]
    /\ "weight" \in DOMAIN conc.turns[conc.applied[1]].update_data
    /\ "weight" \notin DOMAIN conc.turns[conc.applied[2]].update_data
    /\ \E r \in store :
          /\ r.id = ParseUUID(conc.turns[1].st.workout_id)
          /\ r.sets = conc.turns[conc.applied[2]].update_data["sets"]
          /\ r.weight = "225 lbs"
          /\ r.reps = 10

\* the turn t makes its store call in this step
Mutates(t) ==
    /\ conc.turns[t].pc \in {"database.update", "workout_deletor"}
    /\ conc'.turns[t].pc = "END"

\* the row the turn t targets was in the table when the turns began and has
\* been deleted since
TargetGone(t) ==
    LET s == conc.turns[t].st
    IN  /\ EqIdUser(conc.orig, ParseUUID(s.workout_id), s.user_id) # {}
        /\ EqId(store, ParseUUID(s.workout_id)) = {}

\* C34: when the row a turn targets has been deleted by another turn before
\* the turn's own mutation call, that call changes no row of the table (it
\* does not fall through to another row of the owner) and the turn ends with
\* the not-found response
C34_StaleTargetTouchesNothing ==
    [][\A t \in 1..Len(conc.turns) :
          (Mutates(t) /\ TargetGone(t)) =>
              /\ store' = store
              /\ conc'.turns[t].st.response =
                    IF conc.turns[t].st.intent = "delete"
                    THEN DeleteMissResponse ELSE UpdateMissResponse]_vars

\* an update turn held the owner's most recent row as its target, a delete
\* turn of the same owner removed that row first, the update then answered
\* not-found and the owner's other row is as it was
C34_Witness ==
    \E t, d \in 1..Len(conc.turns) :
        /\ conc.turns[d].st.intent = "delete"
        /\ conc.turns[d].st.response = DeletedResponse
        /\ conc.turns[t].st.intent = "put"
        /\ conc.turns[t].pc = "END"
        /\ conc.turns[t].update_data # <<>>
        /\ conc.turns[t].st.response = UpdateMissResponse
        /\ conc.turns[t].st.workout_id = conc.turns[d].st.workout_id
        /\ conc.turns[t].st.user_id = conc.turns[d].st.user_id
        /\ \A o \in EqUser(conc.orig, conc.turns[t].st.user_id) :
              o.id <= ParseUUID(conc.turns[t].st.workout_id)
        /\ call.op = "update" /\ call.up
        /\ \E r \in store :
              /\ r.user_id = conc.turns[t].st.user_id
              /\ r \in conc.orig

====
